---- MODULE Spec2Model ----
(***************************************************************************)
(* A model of the publication tree of gc-alexandria and of the lazy,       *)
(* depth-first resolver that grows it from the relays.                     *)
(*                                                                         *)
(* Strings that serve as keys (event ids, `a`-tag addresses) are modelled  *)
(* by the tuple of their colon-separated segments, i.e. by what            *)
(* String.split(':') returns for them: the id "x" is <<"x">>, the address  *)
(* "30041:pk:x" is <<"30041", "pk", "x">>.  Node objects are modelled by   *)
(* their position in an arena (the order of their creation); JavaScript    *)
(* object identity is equality of positions.                               *)
(***************************************************************************)
EXTENDS Integers, Sequences, FiniteSets, TLC

VARIABLES
    tree,       \* the PublicationTree instance: root, nodes, nodesById, nodesByAddress
    last,       \* the last call made on the tree's public interface and its outcome
    store,      \* the relays' content: the `a`/`e` tag values of every event
    pc,         \* position of depthFirstFindEvent ("failed": it has thrown)
    target,     \* targetId of the running resolution
    stack,      \* the traversal stack (node objects, top last)
    current,    \* currentNode
    round,      \* the addresses handed to fetchEventsByAddresses in this round
    fetched,    \* per address of the round: the unit fetched, NoUnit (null) or Pending
    result,     \* what depthFirstFindEvent returned, or the error it threw
    fetchCount, \* number of ndk.fetchEvent calls made by the running resolution
    visited,    \* history: the node objects popped by the running resolution, in order
    heads,      \* history: what the running resolution saw at each earlier loop head
    calls,      \* number of resolutions started on this tree
    reading,    \* the last getSectionContent / retrieveSection call and its outcome
    adoc,       \* an AsciidoctorTree instance, the document it processes, its passes
    suspended   \* a resolution that waits in a fetch round while another one runs

vars == <<tree, last, store, pc, target, stack, current, round, fetched, result,
          fetchCount, visited, heads, calls, reading, adoc, suspended>>

treeVars == <<tree, last>>
resolverVars == <<store, pc, target, stack, current, round, fetched, result,
                  fetchCount, visited, heads, calls>>
otherVars == <<reading, adoc, suspended>>

----------------------------------------------------------------------------
(* Bounds of the model. *)

\* node objects a tree may hold when its interface is called directly
MaxNodes == 3

\* node objects a tree may hold when a resolution grows it
MaxTreeSize == 4

\* resolutions run on one tree
MaxCalls == 2

\* decomposition passes run in one behaviour
MaxPasses == 2

\* direct calls of generateAddress in one behaviour
MaxGenerateCalls == 2

----------------------------------------------------------------------------
(* The events (units) of the model and their fields. *)

Null == 0           \* an absent node (null / undefined)
NoKey == <<>>       \* an absent string (null)
NoUnit == "none"    \* an absent event (null)

\* "r" (kind 30040), "x" and "x2" (kind 30041) are parameterized replaceable
\* events, "x2" being a later version of "x" at the same address; "y" is a
\* regular event and "z" a replaceable one; "c" is a parameterized replaceable
\* event of another author whose d-tag, "c:d", holds a colon.
Units == {"r", "x", "x2", "y", "z", "c"}

\* NDKEvent.kind
Kind(u) ==
    CASE u = "r"  -> 30040
      [] u = "x"  -> 30041
      [] u = "x2" -> 30041
      [] u = "y"  -> 1
      [] u = "z"  -> 10002
      [] u = "c"  -> 30040

\* NDKEvent.pubkey
Pubkey(u) == IF u = "c" THEN "pk2" ELSE "pk"

\* NDKEvent.dTag ("x2" is a later version of the parameterized replaceable event "x")
DTag(u) ==
    CASE u = "r"  -> "r"
      [] u = "x"  -> "x"
      [] u = "x2" -> "x"
      [] u = "c"  -> "c:d"
      [] OTHER    -> "undefined"

\* String.split(':') on the d-tags of the model
Split(str) == IF str = "c:d" THEN <<"c", "d">> ELSE <<str>>

\* NDKEvent.id, as the key string it is used as
Id(u) == <<u>>

\* `${event.kind}` : the decimal form of a kind
KindString(k) ==
    CASE k = 1     -> "1"
      [] k = 10002 -> "10002"
      [] k = 30040 -> "30040"
      [] k = 30041 -> "30041"

Kinds == {1, 10002, 30040, 30041}

\* Number(kind) : the kind a decimal string denotes, -1 for NaN
KindNumber(s) ==
    IF \E k \in Kinds : KindString(k) = s
    THEN CHOOSE k \in Kinds : KindString(k) = s
    ELSE -1

\* NDKEvent.isParamReplaceable()
isParamReplaceable(u) == Kind(u) >= 30000 /\ Kind(u) < 40000

\* NDKEvent.isReplaceable()
isReplaceable(u) == Kind(u) \in {0, 3} \/ (Kind(u) >= 10000 /\ Kind(u) < 20000)

getEventAddress(u) ==
    IF isParamReplaceable(u)
    THEN <<KindString(Kind(u)), Pubkey(u)>> \o Split(DTag(u))
    ELSE IF isReplaceable(u)
         THEN <<KindString(Kind(u)), Pubkey(u)>>
         ELSE NoKey

----------------------------------------------------------------------------
(* PublicationTree *)

\* Map.get(k) ?? null
MapGet(m, k) == IF k \in DOMAIN m THEN m[k] ELSE Null

\* Map.set(k, v)
MapSet(m, k, v) == [j \in (DOMAIN m) \cup {k} |-> IF j = k THEN v ELSE m[j]]

EmptyMap == [j \in {} |-> Null]

\* new PublicationTree(rootEvent)
NewTree(rootEvent) ==
    LET address == getEventAddress(rootEvent) IN
    [ root           |-> 1,
      nodes          |-> << [event |-> rootEvent, parent |-> Null, children |-> <<>>] >>,
      nodesById      |-> MapSet(EmptyMap, Id(rootEvent), 1),
      nodesByAddress |-> IF address # NoKey
                         THEN MapSet(EmptyMap, address, 1)
                         ELSE EmptyMap ]

\* getNode(event: string)
getNode(T, key) ==
    IF MapGet(T.nodesById, key) # Null
    THEN MapGet(T.nodesById, key)
    ELSE MapGet(T.nodesByAddress, key)

\* getNode(event: NDKEvent)
getNodeOfEvent(T, u) == MapGet(T.nodesById, Id(u))

\* getParent(event: string)
getParent(T, key) ==
    LET n == getNode(T, key) IN
    IF n = Null THEN Null ELSE T.nodes[n].parent

\* getParent(event: NDKEvent)
getParentOfEvent(T, u) == getParent(T, Id(u))

\* getChildren(event: string)
getChildren(T, key) ==
    LET n == getNode(T, key) IN
    IF n = Null THEN <<>> ELSE T.nodes[n].children

\* getChildren(event: NDKEvent)
getChildrenOfEvent(T, u) == getChildren(T, Id(u))

\* getSiblings(event: string)
getSiblings(T, key) ==
    LET n == getNode(T, key) IN
    IF n = Null THEN <<>>
    ELSE IF T.nodes[n].parent = Null THEN <<>>
    ELSE LET keep(child) == Id(T.nodes[child].event) # key
         IN  SelectSeq(T.nodes[T.nodes[n].parent].children, keep)

\* getSiblings(event: NDKEvent)
getSiblingsOfEvent(T, u) == getSiblings(T, Id(u))

\* A slip in the body of addNode: the new node is appended to the root's children
\* instead of the children of the parent that was looked up.
InsertUnderRootChildren(T, event, parentNode) ==
    LET node    == Len(T.nodes) + 1
        address == getEventAddress(event)
        created == Append(T.nodes,
                          [event |-> event, parent |-> parentNode, children |-> <<>>])
    IN  [ root           |-> T.root,
          nodes          |-> [created EXCEPT ![T.root].children = Append(@, node)],
          nodesById      |-> MapSet(T.nodesById, Id(event), node),
          nodesByAddress |-> IF address # NoKey
                             THEN MapSet(T.nodesByAddress, address, node)
                             ELSE T.nodesByAddress ]

\* The body of addNode once the parent node is found.
InsertUnder(T, event, parentNode) ==
    LET node    == Len(T.nodes) + 1
        address == getEventAddress(event)
        created == Append(T.nodes,
                          [event |-> event, parent |-> parentNode, children |-> <<>>])
    IN  [ root           |-> T.root,
          nodes          |-> [created EXCEPT ![parentNode].children = Append(@, node)],
          nodesById      |-> MapSet(T.nodesById, Id(event), node),
          nodesByAddress |-> IF address # NoKey
                             THEN MapSet(T.nodesByAddress, address, node)
                             ELSE T.nodesByAddress ]

\* A slip in addNode: the node is created and registered under its id before the
\* parent is looked up, so a failing call leaves it behind.
addNodeRegisterFirst(T, event, parent) ==
    LET parentNode == getNode(T, parent)
        node       == Len(T.nodes) + 1
        orphan     == [event |-> event, parent |-> Null, children |-> <<>>]
    IN  IF parentNode = Null
        THEN [tree  |-> [T EXCEPT !.nodes = Append(@, orphan),
                                  !.nodesById = MapSet(@, Id(event), node)],
              error |-> "ParentNotFound"]
        ELSE [tree |-> InsertUnder(T, event, parentNode), error |-> "none"]

\* addNode(event, parent: string): the tree after the call and the error thrown
addNode(T, event, parent) ==
    LET parentNode == getNode(T, parent) IN
    IF parentNode = Null
    THEN [tree |-> T, error |-> "ParentNotFound"]
    ELSE [tree |-> InsertUnder(T, event, parentNode), error |-> "none"]

\* addNode(event, parent: NDKEvent)
addNodeOfEvent(T, event, parent) == addNode(T, event, Id(parent))

----------------------------------------------------------------------------
(* The tree's public interface, called directly. *)

\* the strings a caller passes as keys: ids, addresses, and one unknown id
Keys ==
    {Id(u) : u \in Units}
        \cup ({getEventAddress(u) : u \in Units} \ {NoKey})
        \cup {<<"zz">>}

\* the events and the key strings of the direct calls
InterfaceUnits == Units \ {"c"}

InterfaceKeys ==
    {Id(u) : u \in InterfaceUnits}
        \cup ({getEventAddress(u) : u \in InterfaceUnits} \ {NoKey})
        \cup {<<"zz">>}

NoCall == [op |-> "none", event |-> NoUnit, parent |-> NoKey, error |-> "none"]

\* the resolver's variables while no resolution runs
ResolverIdle ==
    /\ pc = "idle"
    /\ target = NoKey
    /\ stack = <<>>
    /\ current = Null
    /\ round = <<>>
    /\ fetched = <<>>
    /\ result = NoUnit
    /\ fetchCount = 0
    /\ visited = <<>>
    /\ heads = {}
    /\ calls = 0

NoTags == [u \in Units |-> <<>>]

\* no getSectionContent / retrieveSection call made yet
NoSection ==
    [op |-> "none", call |-> 0, key |-> NoKey, status |-> "none", text |-> <<>>,
     rendered |-> FALSE]

\* no AsciidoctorTree in use
NoDoc == [inUse |-> FALSE]

\* no resolution is suspended; `call` is the number of the suspended call,
\* `log` tells which call ran while the tree grew up to which size
NoSuspended == [call |-> 0, context |-> <<>>, log |-> <<>>]

OthersIdle == reading = NoSection /\ adoc = NoDoc /\ suspended = NoSuspended

InitTree ==
    /\ \E rootEvent \in InterfaceUnits : tree = NewTree(rootEvent)
    /\ last = NoCall
    /\ store = NoTags
    /\ ResolverIdle
    /\ OthersIdle

\* tree.addNode(event, parent) with parent a string
AddNodeCall(event, parent) ==
    LET r == addNode(tree, event, parent) IN
    /\ r.error = "none" => Len(tree.nodes) < MaxNodes
    /\ tree' = r.tree
    /\ last' = [op |-> "addNode", event |-> event, parent |-> parent, error |-> r.error]
    /\ UNCHANGED <<resolverVars, otherVars>>

\* tree.addNode(event, parent) with parent an NDKEvent
AddNodeOfEventCall(event, parent) ==
    LET r == addNodeOfEvent(tree, event, parent) IN
    /\ r.error = "none" => Len(tree.nodes) < MaxNodes
    /\ tree' = r.tree
    /\ last' = [op |-> "addNode", event |-> event, parent |-> Id(parent), error |-> r.error]
    /\ UNCHANGED <<resolverVars, otherVars>>

NextTree ==
    \/ \E event \in InterfaceUnits, parent \in InterfaceKeys : AddNodeCall(event, parent)
    \/ \E event \in InterfaceUnits, parent \in InterfaceUnits :
          AddNodeOfEventCall(event, parent)

SpecTree == InitTree /\ [][NextTree]_vars

----------------------------------------------------------------------------
(* The relays, as NDK presents them. *)

Pending == "pending"

\* a fetchEvent promise that was rejected
Rejected == "rejected"

\* the events ndk.fetchEvent may deliver for an address of 1, 2 or 3 segments
Matches(address) ==
    CASE Len(address) = 1 ->
            {u \in Units : Id(u) = address}
      [] Len(address) = 2 ->
            {u \in Units : /\ Kind(u) = KindNumber(address[1])
                           /\ Pubkey(u) = address[2]}
      [] Len(address) = 3 ->
            {u \in Units : /\ Kind(u) = KindNumber(address[1])
                           /\ Pubkey(u) = address[2]
                           /\ DTag(u) # "undefined"
                           /\ DTag(u) = address[3]}
      [] OTHER -> {}

\* the values of the `a` and `e` tags an event may carry: the id of "x", the id
\* of "y", the address of "x", and two addresses that name a kind and an author
\* only
RefKeys ==
    {Id("x"), Id("y"), getEventAddress("x"), <<"30041", "pk">>, <<"30040", "pk">>}

\* the tag lists of the model: no, one or two references
TagLists ==
    {<<>>} \cup {<<a>> : a \in RefKeys} \cup {<<a, b>> : a \in RefKeys, b \in RefKeys}

\* the targets a caller asks for: the root, "x" by address, "y" by id, an unknown id
Targets == {Id("r"), getEventAddress("x"), Id("y"), <<"zz">>}

----------------------------------------------------------------------------
(* depthFirstFindEvent *)

Top(s) == s[Len(s)]
Pop(s) == SubSeq(s, 1, Len(s) - 1)

\* childAddresses of a node: the values of its event's `a` and `e` tags
childAddresses(n) == store[tree.nodes[n].event]

\* childAddresses.filter(address => !tree.getNode(address))
unfetchedChildAddresses(n) ==
    LET missing(address) == getNode(tree, address) = Null
    IN  SelectSeq(childAddresses(n), missing)

\* What the rest of a resolution depends on at a loop head: the events on the
\* stack, and for every key of the two indices the event of the node it leads to
\* and the events of that node's children.  (The loop reads a popped node's
\* event only, and reaches the tree through getNode, addNode and getChildren,
\* all three by key.)
LoopHead ==
    LET view(n) == [ event    |-> tree.nodes[n].event,
                     children |-> [i \in 1..Len(tree.nodes[n].children) |->
                                      tree.nodes[tree.nodes[n].children[i]].event] ]
    IN  [ stack |-> [i \in 1..Len(stack) |-> tree.nodes[stack[i]].event],
          byId  |-> [k \in DOMAIN tree.nodesById |-> view(tree.nodesById[k])],
          byAddress |-> [k \in DOMAIN tree.nodesByAddress |->
                            view(tree.nodesByAddress[k])] ]

AllReturned == \A i \in 1..Len(fetched) : fetched[i] # Pending

\* the default case of fetchEventsByAddresses: more than three segments
Unsupported(address) == Len(address) > 3

\* the addresses that addresses.map(...) turns into fetches before it reaches an
\* unsupported one and throws
BeforeUnsupported(addresses) ==
    LET bad == {i \in 1..Len(addresses) : Unsupported(addresses[i])}
    IN  IF bad = {} THEN addresses
        ELSE SubSeq(addresses, 1, (CHOOSE i \in bad : \A j \in bad : i <= j) - 1)

Init ==
    /\ tree = NewTree("r")
    /\ last = NoCall
    /\ \E a \in TagLists, b \in TagLists :
          store = [u \in Units |->
                      CASE u = "r"  -> a
                        [] u = "x"  -> b
                        [] OTHER    -> <<>>]
    /\ ResolverIdle
    /\ OthersIdle

\* A slip in depthFirstFindEvent: the tree is not searched for the target before
\* the traversal starts.
StartWithoutLookup(t) ==
    /\ pc \in {"idle", "done", "failed"}
    /\ calls < MaxCalls
    /\ calls' = calls + 1
    /\ target' = t
    /\ fetchCount' = 0
    /\ visited' = <<>>
    /\ heads' = {}
    /\ current' = Null
    /\ round' = <<>>
    /\ fetched' = <<>>
    /\ result' = NoUnit
    /\ stack' = <<tree.root>>
    /\ pc' = "loop"
    /\ UNCHANGED <<tree, last, store>>
    /\ UNCHANGED otherVars

\* depthFirstFindEvent(target, tree, ndk) up to the loop
Start(t) ==
    /\ pc \in {"idle", "done", "failed"}
    /\ calls < MaxCalls
    /\ calls' = calls + 1
    /\ target' = t
    /\ fetchCount' = 0
    /\ visited' = <<>>
    /\ heads' = {}
    /\ current' = Null
    /\ round' = <<>>
    /\ fetched' = <<>>
    /\ IF getNode(tree, t) # Null
       THEN /\ result' = tree.nodes[getNode(tree, t)].event
            /\ stack' = <<>>
            /\ pc' = "done"
       ELSE /\ result' = NoUnit
            /\ stack' = <<tree.root>>
            /\ pc' = "loop"
    /\ UNCHANGED <<tree, last, store>>
    /\ UNCHANGED otherVars

\* A slip in fetchEventsByAddresses: an address of an unsupported shape is
\* fetched like the others (and nothing answers it) instead of being refused.
PopNodeWithoutShapeCheck ==
    /\ pc = "loop"
    /\ stack # <<>>
    /\ LET currentNode == Top(stack) IN
       /\ stack' = Pop(stack)
       /\ current' = currentNode
       /\ visited' = Append(visited, currentNode)
       /\ heads' = heads \cup {LoopHead}
       /\ IF Len(childAddresses(currentNode)) = 0
          THEN /\ pc' = "loop"
               /\ UNCHANGED <<round, fetched, fetchCount>>
          ELSE /\ round' = unfetchedChildAddresses(currentNode)
               /\ fetched' = [i \in 1..Len(unfetchedChildAddresses(currentNode)) |-> Pending]
               /\ fetchCount' = fetchCount + Len(unfetchedChildAddresses(currentNode))
               /\ pc' = "await"
    /\ UNCHANGED <<tree, last, store, target, result, calls>>
    /\ UNCHANGED otherVars

\* one pass of the loop head: pop a node, and either continue (no tags), or
\* dispatch the fetches of the children that are not in the tree, or throw
\* because one of these has an unsupported shape
PopNode ==
    /\ pc = "loop"
    /\ stack # <<>>
    /\ LET currentNode == Top(stack)
           unfetched   == unfetchedChildAddresses(currentNode)
       IN
       /\ stack' = Pop(stack)
       /\ current' = currentNode
       /\ visited' = Append(visited, currentNode)
       /\ heads' = heads \cup {LoopHead}
       /\ IF Len(childAddresses(currentNode)) = 0
          THEN /\ pc' = "loop"
               /\ UNCHANGED <<round, fetched, fetchCount, result>>
          ELSE IF \E i \in 1..Len(unfetched) : Unsupported(unfetched[i])
          THEN /\ fetchCount' = fetchCount + Len(BeforeUnsupported(unfetched))
               /\ round' = <<>>
               /\ fetched' = <<>>
               /\ result' = "InvalidAddress"
               /\ pc' = "failed"
          ELSE /\ round' = unfetched
               /\ fetched' = [i \in 1..Len(unfetched) |-> Pending]
               /\ fetchCount' = fetchCount + Len(unfetched)
               /\ pc' = "await"
               /\ UNCHANGED result
    /\ UNCHANGED <<tree, last, store, target, calls>>
    /\ UNCHANGED otherVars

\* one ndk.fetchEvent promise of the round settles, with an event or with null
FetchReturn(u) ==
    /\ pc = "await"
    /\ \E i \in 1..Len(fetched) :
          /\ fetched[i] = Pending
          /\ u \in Matches(round[i]) \cup {NoUnit}
          /\ fetched' = [fetched EXCEPT ![i] = u]
    /\ UNCHANGED <<tree, last, store, pc, target, stack, current, round, result,
                   fetchCount, visited, heads, calls>>
    /\ UNCHANGED otherVars

\* one ndk.fetchEvent promise of the round is rejected: Promise.all rejects, the
\* await throws and depthFirstFindEvent, which catches nothing, throws with it
FetchReject ==
    /\ pc = "await"
    /\ \E i \in 1..Len(fetched) :
          /\ fetched[i] = Pending
          /\ fetched' = [fetched EXCEPT ![i] = Rejected]
    /\ result' = "FetchFailed"
    /\ pc' = "failed"
    /\ UNCHANGED <<tree, last, store, target, stack, current, round, fetchCount,
                   visited, heads, calls>>
    /\ UNCHANGED otherVars

\* Promise.all has settled: the forEach starts
Resume ==
    /\ pc = "await"
    /\ AllReturned
    /\ pc' = "insert"
    /\ UNCHANGED <<tree, last, store, target, stack, current, round, fetched, result,
                   fetchCount, visited, heads, calls>>
    /\ UNCHANGED otherVars

\* one step of the forEach: if (event) tree.addNode(event, currentNode.event.id)
InsertFetched ==
    /\ pc = "insert"
    /\ fetched # <<>>
    /\ LET event == Head(fetched)
           r     == addNode(tree, event, Id(tree.nodes[current].event))
       IN  IF event = NoUnit
           THEN UNCHANGED <<tree, pc, result>>
           ELSE /\ Len(tree.nodes) < MaxTreeSize
                /\ tree' = r.tree
                /\ IF r.error = "none"
                   THEN UNCHANGED <<pc, result>>
                   ELSE pc' = "done" /\ result' = r.error
    /\ fetched' = Tail(fetched)
    /\ round' = Tail(round)
    /\ UNCHANGED <<last, store, target, stack, current, fetchCount, visited, heads, calls>>
    /\ UNCHANGED otherVars

\* A slip in depthFirstFindEvent: the target is not looked up after the round;
\* the children are pushed and the loop goes on.
AfterRoundWithoutCheck ==
    /\ pc = "insert"
    /\ fetched = <<>>
    /\ stack' = stack \o getChildrenOfEvent(tree, tree.nodes[current].event)
    /\ pc' = "loop"
    /\ UNCHANGED <<tree, last, store, target, current, round, fetched, fetchCount,
                   visited, heads, calls, result>>
    /\ UNCHANGED otherVars

\* after the forEach: return the target if it is found now, else push the children
AfterRound ==
    /\ pc = "insert"
    /\ fetched = <<>>
    /\ IF getNode(tree, target) # Null
       THEN /\ result' = tree.nodes[getNode(tree, target)].event
            /\ pc' = "done"
            /\ UNCHANGED stack
       ELSE /\ stack' = stack \o getChildrenOfEvent(tree, tree.nodes[current].event)
            /\ pc' = "loop"
            /\ UNCHANGED result
    /\ UNCHANGED <<tree, last, store, target, current, round, fetched, fetchCount,
                   visited, heads, calls>>
    /\ UNCHANGED otherVars

\* the stack is empty: return null
ReturnNull ==
    /\ pc = "loop"
    /\ stack = <<>>
    /\ result' = NoUnit
    /\ pc' = "done"
    /\ UNCHANGED <<tree, last, store, target, stack, current, round, fetched,
                   fetchCount, visited, heads, calls>>
    /\ UNCHANGED otherVars

Next ==
    \/ \E t \in Targets : Start(t)
    \/ PopNode
    \/ \E u \in Units \cup {NoUnit} : FetchReturn(u)
    \/ Resume
    \/ InsertFetched
    \/ AfterRound
    \/ ReturnNull

Spec == Init /\ [][Next]_vars

----------------------------------------------------------------------------
(* depthFirstFindEvent over relays that may fail, and over events whose tags
   hold an address of more than three segments. *)

\* tag values: the ids of "x" and "c", and the address of "c", "30040:pk2:c:d",
\* which split(':') cuts into four segments
RefKeysFaults == {Id("x"), Id("c"), getEventAddress("c")}

TagListsFaults ==
    {<<>>} \cup {<<a>> : a \in RefKeysFaults}
           \cup {<<a, b>> : a \in RefKeysFaults, b \in RefKeysFaults}

InitFaults ==
    /\ tree = NewTree("r")
    /\ last = NoCall
    /\ \E a \in TagListsFaults, b \in TagListsFaults :
          store = [u \in Units |->
                      CASE u = "r"  -> a
                        [] u = "x"  -> b
                        [] OTHER    -> <<>>]
    /\ ResolverIdle
    /\ OthersIdle

NextFaults ==
    \/ \E t \in Targets : Start(t)
    \/ PopNode
    \/ \E u \in Units \cup {NoUnit} : FetchReturn(u)
    \/ FetchReject
    \/ Resume
    \/ InsertFetched
    \/ AfterRound
    \/ ReturnNull

SpecFaults == InitFaults /\ [][NextFaults]_vars

----------------------------------------------------------------------------
(* Two resolutions on one tree.  depthFirstFindEvent gives up control only at
   its await (part_003:44), so a second call can start, and the two can take
   turns, only while the running one waits for its fetches or has returned.
   The variables of the resolver are those of the call that runs; the other
   call's are kept in `suspended`. *)

\* the variables of one call of depthFirstFindEvent
CallContext ==
    [ pc |-> pc, target |-> target, stack |-> stack, current |-> current,
      round |-> round, fetched |-> fetched, result |-> result,
      fetchCount |-> fetchCount, visited |-> visited, heads |-> heads ]

\* the number (1 or 2) of the call that runs
Running == IF suspended.call = 0 THEN 1 ELSE 3 - suspended.call

TagListsShared == { <<Id("x")>>, <<Id("x"), Id("y")>>, <<getEventAddress("x")>> }

InitConcurrent ==
    /\ tree = NewTree("r")
    /\ last = NoCall
    /\ \E a \in TagListsShared, b \in {<<>>, <<Id("y")>>} :
          store = [u \in Units |->
                      CASE u = "r"  -> a
                        [] u = "x"  -> b
                        [] OTHER    -> <<>>]
    /\ ResolverIdle
    /\ OthersIdle

\* the first call on the tree
FirstCall(t) ==
    /\ calls = 0
    /\ Start(t)

\* depthFirstFindEvent(t, tree, ndk) is called while the first call waits for
\* the fetches of a round; it runs up to its loop
CallWhileSuspended(t) ==
    /\ pc = "await"
    /\ suspended.call = 0
    /\ calls = 1
    /\ suspended' = [ call |-> 1, context |-> CallContext,
                      log |-> <<[upto |-> Len(tree.nodes), by |-> 1]>> ]
    /\ calls' = calls + 1
    /\ target' = t
    /\ fetchCount' = 0
    /\ visited' = <<>>
    /\ heads' = {}
    /\ current' = Null
    /\ round' = <<>>
    /\ fetched' = <<>>
    /\ IF getNode(tree, t) # Null
       THEN /\ result' = tree.nodes[getNode(tree, t)].event
            /\ stack' = <<>>
            /\ pc' = "done"
       ELSE /\ result' = NoUnit
            /\ stack' = <<tree.root>>
            /\ pc' = "loop"
    /\ UNCHANGED <<tree, last, store, reading, adoc>>

\* the running call waits or has returned, and the event loop goes on with the
\* other call, which waits for its fetches
TakeTurns ==
    /\ suspended.call # 0
    /\ pc \in {"await", "done", "failed"}
    /\ suspended.context.pc = "await"
    /\ suspended' = [ call |-> Running, context |-> CallContext,
                      log |-> IF suspended.log[Len(suspended.log)].upto = Len(tree.nodes)
                              THEN suspended.log
                              ELSE Append(suspended.log,
                                          [upto |-> Len(tree.nodes), by |-> Running]) ]
    /\ pc' = suspended.context.pc
    /\ target' = suspended.context.target
    /\ stack' = suspended.context.stack
    /\ current' = suspended.context.current
    /\ round' = suspended.context.round
    /\ fetched' = suspended.context.fetched
    /\ result' = suspended.context.result
    /\ fetchCount' = suspended.context.fetchCount
    /\ visited' = suspended.context.visited
    /\ heads' = suspended.context.heads
    /\ UNCHANGED <<tree, last, store, calls, reading, adoc>>

NextConcurrent ==
    \/ \E t \in Targets : FirstCall(t)
    \/ \E t \in Targets : CallWhileSuspended(t)
    \/ TakeTurns
    \/ PopNode
    \/ \E u \in Units \cup {NoUnit} : FetchReturn(u)
    \/ Resume
    \/ InsertFetched
    \/ AfterRound
    \/ ReturnNull

SpecConcurrent == InitConcurrent /\ [][NextConcurrent]_vars

----------------------------------------------------------------------------
(* getSectionContent and Librarian.retrieveSection.

   A text is the sequence of its pieces: a heading of level n and title t is
   n pieces "=", then " ", t and "\n\n"; an event's content is one piece. *)

NoTitle == "no title tag"

\* event.getMatchingTags('title')[0]?.[1]: the note "y" carries no title tag
Title(u) ==
    CASE u = "r"  -> "R"
      [] u = "c"  -> "C"
      [] u = "x"  -> "X"
      [] u = "x2" -> "X"
      [] u = "z"  -> "Z"
      [] OTHER    -> NoTitle

\* event.content
Content(u) == "text of " \o u

\* zettelKinds of $lib/consts: the kinds whose events are leaves
zettelKinds == {30041}

\* PublicationTree.getNodeDepth: the number of parent links from a node to the
\* root of the whole tree
RECURSIVE getNodeDepth(_, _)
getNodeDepth(T, n) ==
    IF T.nodes[n].parent = Null THEN 0 ELSE 1 + getNodeDepth(T, T.nodes[n].parent)

\* `${titleLevel} ${title}\n\n` with depth + 1 markers
Heading(depth, title) == [i \in 1..(depth + 1) |-> "="] \o <<" ", title, "\n\n">>

\* The outcome of a call that throws
Thrown(error) == [error |-> error, text |-> <<>>, emitted |-> <<>>]

\* getSectionContent from the node its argument resolves to (rootNode), and its
\* loop over the children.  `asked` is the node object whose event was passed
\* (the listed child, or rootNode itself for the outermost call); `emitted`
\* records, per heading written, the node asked for, the node the heading was
\* computed from, and the number of markers.  `fuel` bounds the recursion.
RECURSIVE SectionFrom(_, _, _, _)
RECURSIVE ChildrenContent(_, _, _, _)
SectionFrom(T, asked, rootNode, fuel) ==
    IF rootNode = Null THEN Thrown("NodeNotFound")
    ELSE LET event == T.nodes[rootNode].event
             depth == getNodeDepth(T, rootNode)
             own   == [ error   |-> "none",
                        text    |-> Heading(depth, Title(event)),
                        emitted |-> << [asked |-> asked, node |-> rootNode,
                                        markers |-> depth + 1] >> ]
         IN  IF Title(event) = NoTitle THEN Thrown("TypeError")
             ELSE IF Kind(event) \in zettelKinds
             THEN [own EXCEPT !.text = @ \o <<Content(event)>>]
             ELSE IF fuel = 0 THEN Thrown("RangeError")
             ELSE ChildrenContent(T, getChildrenOfEvent(T, event), own, fuel - 1)

ChildrenContent(T, children, content, fuel) ==
    IF children = <<>> THEN content
    ELSE LET child == SectionFrom(T, Head(children),
                                  getNodeOfEvent(T, T.nodes[Head(children)].event), fuel)
         IN  IF child.error # "none" THEN Thrown(child.error)
             ELSE ChildrenContent(T, Tail(children),
                                  [content EXCEPT !.text = @ \o child.text,
                                                  !.emitted = @ \o child.emitted],
                                  fuel)

\* A slip in getSectionContent: a root that is not found gives an empty text
\* instead of an error.
getSectionContentUnchecked(T, root) ==
    IF getNode(T, root) = Null THEN Thrown("none")
    ELSE SectionFrom(T, getNode(T, root), getNode(T, root), Len(T.nodes))

\* getSectionContent(root, tree) with root a string
getSectionContent(T, root) ==
    SectionFrom(T, getNode(T, root), getNode(T, root), Len(T.nodes))

\* getSectionContent(root, tree) with root an NDKEvent
getSectionContentOfEvent(T, root) ==
    SectionFrom(T, getNodeOfEvent(T, root), getNodeOfEvent(T, root), Len(T.nodes))

\* tag lists of the root index "r" and of the chapter index "c"
TagListsRoot ==
    { <<>>, <<Id("c")>>, <<Id("x"), Id("c")>>, <<Id("c"), Id("c")>>,
      <<Id("x"), <<"30040", "pk">>>>, <<Id("y"), Id("c")>> }

TagListsChapter == { <<>>, <<Id("x")>>, <<<<"30041", "pk">>>>, <<Id("x"), Id("y")>> }

\* the keys getSectionContent is called with
SectionKeys == {Id("r"), Id("c"), Id("x"), getEventAddress("x"), <<"zz">>}

\* new Librarian(publicationIndex, ndk)
InitLibrarian ==
    /\ tree = NewTree("r")
    /\ last = NoCall
    /\ \E a \in TagListsRoot, b \in TagListsChapter :
          store = [u \in Units |->
                      CASE u = "r"  -> a
                        [] u = "c"  -> b
                        [] OTHER    -> <<>>]
    /\ ResolverIdle
    /\ OthersIdle

\* Librarian.retrieveSection(target) up to its await of depthFirstFindEvent
RetrieveSection(t) ==
    /\ reading.call = calls
    /\ Start(t)

\* A slip in retrieveSection: the resolver's result is used without the check
\* for null.
RetrieveSectionReturnUnchecked ==
    /\ pc = "done"
    /\ reading.call # calls
    /\ LET parent == IF result = NoUnit THEN Null ELSE getParent(tree, Id(result))
           sectionContent ==
               IF parent = Null THEN Thrown("TypeError")
               ELSE getSectionContentOfEvent(tree, tree.nodes[parent].event)
       IN  reading' = [ op |-> "retrieveSection", call |-> calls, key |-> target,
                        status |-> sectionContent.error, text |-> sectionContent.text,
                        rendered |-> sectionContent.error = "none" ]
    /\ UNCHANGED <<treeVars, resolverVars, adoc, suspended>>

\* A slip in retrieveSection: for a target without a parent the target itself
\* is reconstructed and rendered.
RetrieveSectionReturnOfRoot ==
    /\ pc = "done"
    /\ reading.call # calls
    /\ LET parent == IF result = NoUnit THEN Null ELSE getParent(tree, Id(result))
           sectionContent ==
               IF result = NoUnit THEN Thrown("TargetNotFound")
               ELSE IF parent = Null THEN getSectionContentOfEvent(tree, result)
               ELSE getSectionContentOfEvent(tree, tree.nodes[parent].event)
       IN  reading' = [ op |-> "retrieveSection", call |-> calls, key |-> target,
                        status |-> sectionContent.error, text |-> sectionContent.text,
                        rendered |-> sectionContent.error = "none" ]
    /\ UNCHANGED <<treeVars, resolverVars, adoc, suspended>>

\* Librarian.retrieveSection(target) after depthFirstFindEvent has returned
RetrieveSectionReturn ==
    /\ pc = "done"
    /\ reading.call # calls
    /\ LET parent == IF result = NoUnit THEN Null ELSE getParent(tree, Id(result))
           sectionContent ==
               IF result = NoUnit THEN Thrown("TargetNotFound")
               ELSE IF parent = Null THEN Thrown("TypeError")
               ELSE getSectionContentOfEvent(tree, tree.nodes[parent].event)
       IN  reading' = [ op |-> "retrieveSection", call |-> calls, key |-> target,
                        status |-> sectionContent.error, text |-> sectionContent.text,
                        rendered |-> sectionContent.error = "none" ]
    /\ UNCHANGED <<treeVars, resolverVars, adoc, suspended>>

\* getSectionContent(root, tree) called on the Librarian's tree between two
\* retrievals
GetSectionContentCall(root) ==
    /\ pc \in {"idle", "done"}
    /\ reading.call = calls
    /\ LET sectionContent == getSectionContent(tree, root)
       IN  reading' = [ op |-> "getSectionContent", call |-> calls, key |-> root,
                        status |-> sectionContent.error, text |-> sectionContent.text,
                        rendered |-> FALSE ]
    /\ UNCHANGED <<treeVars, resolverVars, adoc, suspended>>

NextLibrarian ==
    \/ \E t \in Targets : RetrieveSection(t)
    \/ PopNode
    \/ \E u \in Units \cup {NoUnit} : FetchReturn(u)
    \/ Resume
    \/ InsertFetched
    \/ AfterRound
    \/ ReturnNull
    \/ RetrieveSectionReturn
    \/ \E root \in SectionKeys : GetSectionContentCall(root)

SpecLibrarian == InitLibrarian /\ [][NextLibrarian]_vars

----------------------------------------------------------------------------
(* AsciidoctorTree: the decomposition of a parsed document into addressed nodes.
   A method takes the instance as its first argument `this`.  The result of a
   call that is read more than once is bound first (x \in {call}), so that it
   is computed once.

   A string of this part (a block's id, a title, an address) is the sequence
   of its pieces: a piece is one character that normalizeId treats specially
   (" ", "_", ":", "&", "!"), a character entity ("&amp;"), or a run of
   characters that it treats alike ("My", "intro", "30041").  The absent string
   (null, undefined) and the empty string are both <<>>: the code tells them
   apart nowhere (normalizeId maps both to null, and its result is tested with
   `!= null && length > 0`). *)

\* the blocks of the document: the document "D" holds the section "S1", the
\* paragraph "P0", the example block "E1" and the section "S2"; "S1" holds the
\* paragraph "P1" and the image "I1", "E1" the paragraph "P2", "S2" the
\* paragraph "P3"
Blocks == {"D", "S1", "P0", "E1", "S2", "P1", "I1", "P2", "P3"}

\* AbstractBlock.getContext()
Context(b) ==
    CASE b = "D"  -> "document"
      [] b = "S1" -> "section"
      [] b = "S2" -> "section"
      [] b = "E1" -> "example"
      [] b = "I1" -> "image"
      [] OTHER    -> "paragraph"

\* AbstractBlock.getParent()
ParentBlock(b) ==
    CASE b = "D"  -> "none"
      [] b = "S1" -> "D"
      [] b = "P0" -> "D"
      [] b = "E1" -> "D"
      [] b = "S2" -> "D"
      [] b = "P2" -> "E1"
      [] b = "P3" -> "S2"
      [] OTHER    -> "S1"

\* AbstractBlock.getBlocks()
getBlocks(b) ==
    CASE b = "D"  -> <<"S1", "P0", "E1", "S2">>
      [] b = "S1" -> <<"P1", "I1">>
      [] b = "E1" -> <<"P2">>
      [] b = "S2" -> <<"P3">>
      [] OTHER    -> <<>>

\* The documents of the model, as parsed: per block its id and its title.  The
\* document is titled "My_Doc" or untitled; the section has the id "_a" and the
\* title "Intro", or no id and the title "Intro" or "!"; the paragraph "P0"
\* may carry the title "Q&amp;A" or, like the section, the title "Intro"; the
\* other blocks have neither id nor title.
Sources ==
    { [ ids    |-> [b \in Blocks |-> IF b = "S1" THEN sec.id ELSE <<>>],
        titles |-> [b \in Blocks |-> CASE b = "D"  -> dt
                                       [] b = "S1" -> sec.title
                                       [] b = "P0" -> pt
                                       [] OTHER    -> <<>>] ] :
        dt  \in {<<"My", "_", "Doc">>, <<>>},
        sec \in { [id |-> <<"_", "a">>, title |-> <<"Intro">>],
                  [id |-> <<>>, title |-> <<"Intro">>],
                  [id |-> <<>>, title |-> <<"!">>] },
        pt  \in {<<"Q", "&amp;", "A">>, <<"Intro">>, <<>>} }

\* he.decode on one piece
Decode(piece) == IF piece = "&amp;" THEN "&" ELSE piece

\* String.toLowerCase on one piece
LowerCase(piece) ==
    CASE piece = "My"    -> "my"
      [] piece = "Doc"   -> "doc"
      [] piece = "Intro" -> "intro"
      [] piece = "Q"     -> "q"
      [] piece = "A"     -> "a"
      [] OTHER           -> piece

\* the pieces made of characters in [a-z0-9-] only
SafePieces ==
    {"my", "doc", "intro", "q", "a", "-", "undefined", "document", "section",
     "paragraph", "image", "example", "30040", "30041", "pk",
     "0", "1", "2", "3", "4", "5", "6", "7", "8", "9"}

\* String.trim
Trim(str) ==
    LET solid == {i \in 1..Len(str) : str[i] # " "}
    IN  IF solid = {} THEN <<>>
        ELSE SubSeq(str, CHOOSE i \in solid : \A j \in solid : i <= j,
                         CHOOSE i \in solid : \A j \in solid : i >= j)

\* replace(/\s+/g, '-')
RECURSIVE DashRuns(_)
DashRuns(str) ==
    IF str = <<>> THEN <<>>
    ELSE IF Head(str) # " " THEN <<Head(str)>> \o DashRuns(Tail(str))
    ELSE IF Len(str) >= 2 /\ str[2] = " " THEN DashRuns(Tail(str))
    ELSE <<"-">> \o DashRuns(Tail(str))

\* AsciidoctorTree.normalizeId
normalizeId(input) ==
    IF input = <<>> THEN <<>>
    ELSE LET decoded  == [i \in 1..Len(input) |-> Decode(input[i])]
             lowered  == [i \in 1..Len(input) |-> LowerCase(decoded[i])]
             spaced   == [i \in 1..Len(input) |-> IF lowered[i] = "_" THEN " " ELSE lowered[i]]
             safe(piece) == piece \in SafePieces
         IN  SelectSeq(DashRuns(Trim(spaced)), safe)

\* `${blockNumber}`
Digits == <<"0", "1", "2", "3", "4", "5", "6", "7", "8", "9">>

\* new AsciidoctorTree(pubkey), with the history of its passes
NewAsciidoctorTree ==
    [ inUse  |-> TRUE,
      pubkey |-> "pk",
      parsed |-> FALSE,              \* a document has been handed to processAST
      ids    |-> [b \in Blocks |-> <<>>],     \* the blocks' ids (setId changes them)
      titles |-> [b \in Blocks |-> <<>>],
      blocks |-> [b \in Blocks |-> <<>>],    \* the blocks' own block lists, the arrays
                                             \* getBlocks() hands out
      root   |-> NoKey,              \* the root node's address; NoKey: no root
      nodes  |-> EmptyMap,           \* the Map `nodes`: address -> [block, title, children]
      objects |-> EmptyMap,          \* the node objects themselves, by address; they
                                     \* outlive their entry in `nodes`
      contextCounters   |-> EmptyMap,
      eventToKindMap    |-> EmptyMap,
      eventToContextMap |-> EmptyMap,
      err      |-> "none",           \* the error the running call has thrown
      assigned |-> EmptyMap,         \* history: block -> address given to its node in this pass
      log      |-> <<>>,             \* history: the generateAddress calls of the last public call
      visits   |-> <<>>,             \* history: the blocks the last pass took from its queue
      yielded  |-> <<>>,             \* the addresses of the nodes the last iteration yielded
      passes   |-> <<>>,             \* history: per pass its document, its addresses, its
                                     \* error, and whether the tree was a new one
      lastCall |-> [op |-> "none", block |-> "none", address |-> NoKey],
      calls    |-> 0 ]

\* this.getRootNode().address.split(':')[2], as a template literal prints it
documentDTag(rootAddress) ==
    LET colons == {i \in 1..Len(rootAddress) : rootAddress[i] = ":"}
        nth(n) == CHOOSE i \in colons : Cardinality({j \in colons : j < i}) = n - 1
    IN  IF Cardinality(colons) < 2 THEN <<"undefined">>
        ELSE SubSeq(rootAddress, nth(2) + 1,
                    IF Cardinality(colons) >= 3 THEN nth(3) - 1 ELSE Len(rootAddress))

\* AsciidoctorTree.generateAddress(block): the address, and the instance and the
\* document after the call
generateAddress(this, block) ==
    CHOOSE outcome \in {
        LET byId    == normalizeId(A.ids[block])
            byTitle == normalizeId(A.titles[block])
            context     == Context(block)
            blockNumber == IF context \in DOMAIN A.contextCounters
                           THEN A.contextCounters[context] ELSE 0
            dTag        == documentDTag(A.root) \o <<"-", context, "-", Digits[blockNumber + 1]>>
            isIndex     == context = "section"
            kind        == IF isIndex THEN 30040 ELSE 30041
            blockId     == <<KindString(kind), ":", A.pubkey, ":">> \o dTag
            r == IF byId # <<>> THEN [address |-> byId, adoc |-> A]
                 ELSE IF byTitle # <<>> THEN [address |-> byTitle, adoc |-> A]
                 ELSE IF A.root = NoKey
                 THEN [address |-> NoKey, adoc |-> [A EXCEPT !.err = "RootNotSet"]]
                 ELSE [ address |-> blockId,
                        adoc |-> [A EXCEPT
                                    !.contextCounters   = MapSet(@, context, blockNumber + 1),
                                    !.eventToKindMap    = MapSet(@, dTag, kind),
                                    !.ids[block]        = blockId,
                                    !.eventToContextMap = MapSet(@, blockId, context)] ]
        IN
        IF A.err # "none" THEN [address |-> NoKey, adoc |-> A]
        ELSE [ address |-> r.address,
               adoc |-> [r.adoc EXCEPT
                           !.log = Append(@, [ block   |-> block,
                                               id      |-> A.ids[block],
                                               title   |-> A.titles[block],
                                               root    |-> A.root,
                                               before  |-> A.contextCounters,
                                               after   |-> r.adoc.contextCounters,
                                               address |-> r.address,
                                               err     |-> r.adoc.err ])] ]
      : A \in {this} } : TRUE

\* AsciidoctorTree.addNode(node, parentNode); parentNode is the address of the
\* node the caller looked up, NoKey when the lookup gave undefined
addTreeNode(this, node, parentNode) ==
    CHOOSE outcome \in {
        LET B       == g.adoc
            address == g.address
        IN
        IF B.err # "none" THEN B
        ELSE IF address \in DOMAIN B.nodes
        THEN [B EXCEPT !.assigned = MapSet(@, node, address)]
        ELSE IF parentNode = NoKey \/ (parentNode # address /\ parentNode \notin DOMAIN B.nodes)
        THEN [B EXCEPT
                !.nodes = MapSet(@, address,
                                 [block |-> node, title |-> B.titles[node], children |-> <<>>]),
                !.objects = MapSet(@, address,
                                   [block |-> node, title |-> B.titles[node], children |-> <<>>]),
                !.assigned = MapSet(@, node, address),
                !.err = "TypeError"]
        ELSE [B EXCEPT
                !.nodes = [MapSet(@, address,
                                  [block |-> node, title |-> B.titles[node], children |-> <<>>])
                              EXCEPT ![parentNode].children = Append(@, address)],
                !.objects = [MapSet(@, address,
                                    [block |-> node, title |-> B.titles[node], children |-> <<>>])
                                EXCEPT ![parentNode].children = Append(@, address)],
                !.assigned = MapSet(@, node, address)]
      : g \in {generateAddress(this, node)} } : TRUE

\* the lookup of the parent's node by the address g2 = generateAddress(parent)
\* and the call of addNode, as processSection and processBlock make them
AddUnderParent(g2, block) ==
    CHOOSE outcome \in {
        addTreeNode(g.adoc, block,
                    IF g.address \in DOMAIN g.adoc.nodes THEN g.address ELSE NoKey)
      : g \in {g2} } : TRUE

\* AsciidoctorTree.processSection(section), without the blocks it returns
processSection(this, section) ==
    CHOOSE outcome \in UNION {
        { IF B.err # "none" THEN B
          ELSE [B EXCEPT !.eventToKindMap = MapSet(@, g1.address, 30040)]
          : B \in {AddUnderParent(generateAddress(g1.adoc, ParentBlock(section)), section)} }
      : g1 \in {generateAddress(this, section)} } : TRUE

\* AsciidoctorTree.processBlock(block)
processBlock(this, block) ==
    CHOOSE outcome \in UNION {
        { IF B.err # "none" THEN B
          ELSE [B EXCEPT !.eventToKindMap = MapSet(@, g1.address, 30041)]
          : B \in {AddUnderParent(generateAddress(g1.adoc, ParentBlock(block)), block)} }
      : g1 \in {generateAddress(this, block)} } : TRUE

\* A slip in the loop: the blocks a section returns go to the front of the queue.
RECURSIVE DrainQueueDepthFirst(_, _)
DrainQueueDepthFirst(this, nodeQueue) ==
    CHOOSE outcome \in {
        IF A.err # "none" \/ nodeQueue = <<>> THEN A
        ELSE LET block == Head(nodeQueue) IN
             IF Context(block) = "section"
             THEN DrainQueueDepthFirst(
                      processSection([A EXCEPT !.visits = Append(@, block),
                                               !.blocks["D"] = Tail(nodeQueue)], block),
                      A.blocks[block] \o Tail(nodeQueue))
             ELSE DrainQueueDepthFirst(
                      processBlock([A EXCEPT !.visits = Append(@, block),
                                             !.blocks["D"] = Tail(nodeQueue)], block),
                      Tail(nodeQueue))
      : A \in {this} } : TRUE

\* the while loop of processAST over its FIFO queue; the queue is the array
\* document.getBlocks() hands out, the document's own list: shift() takes the
\* block from it, and the blocks pushed stand in it until they are shifted
RECURSIVE DrainQueue(_, _)
DrainQueue(this, nodeQueue) ==
    CHOOSE outcome \in {
        IF A.err # "none" \/ nodeQueue = <<>> THEN A
        ELSE LET block == Head(nodeQueue) IN
             IF Context(block) = "section"
             THEN DrainQueue(processSection([A EXCEPT !.visits = Append(@, block),
                                                      !.blocks["D"] = Tail(nodeQueue)],
                                            block),
                             Tail(nodeQueue) \o A.blocks[block])
             ELSE DrainQueue(processBlock([A EXCEPT !.visits = Append(@, block),
                                                    !.blocks["D"] = Tail(nodeQueue)],
                                          block),
                             Tail(nodeQueue))
      : A \in {this} } : TRUE

\* AsciidoctorTree.processAST(treeProcessor, document)
processAST(this) ==
    CHOOSE outcome \in {
        IF g.adoc.err # "none" THEN g.adoc
        ELSE DrainQueue(
                [g.adoc EXCEPT
                   !.root = g.address,
                   !.nodes = MapSet(@, g.address,
                                    [block |-> "D", title |-> g.adoc.titles["D"],
                                     children |-> <<>>]),
                   !.objects = MapSet(@, g.address,
                                      [block |-> "D", title |-> g.adoc.titles["D"],
                                       children |-> <<>>]),
                   !.eventToKindMap = MapSet(@, g.address, 30040),
                   !.assigned = MapSet(@, "D", g.address)],
                g.adoc.blocks["D"])
      : g \in {generateAddress(this, "D")} } : TRUE

\* the state before any decomposition: a fresh AsciidoctorTree
InitDoc ==
    /\ tree = NewTree("r")
    /\ last = NoCall
    /\ store = NoTags
    /\ ResolverIdle
    /\ reading = NoSection
    /\ adoc = NewAsciidoctorTree
    /\ suspended = NoSuspended

\* no counter is about to leave the digits of the model
CountersInRange ==
    \A c \in DOMAIN adoc.contextCounters : adoc.contextCounters[c] + 2 < Len(Digits)

\* a document is parsed from the text src and handed to processAST
ProcessASTCall(src) ==
    /\ Len(adoc.passes) < MaxPasses
    /\ CountersInRange
    /\ \E A \in {processAST([adoc EXCEPT !.parsed = TRUE, !.ids = src.ids,
                                         !.titles = src.titles,
                                         !.blocks = [b \in Blocks |-> getBlocks(b)],
                                         !.err = "none",
                                         !.assigned = EmptyMap, !.log = <<>>,
                                         !.visits = <<>>])} :
           adoc' = [A EXCEPT
                      !.passes = Append(@, [source |-> src, assigned |-> A.assigned,
                                            err |-> A.err,
                                            fresh |-> adoc.root = NoKey
                                                      /\ adoc.contextCounters = EmptyMap]),
                      !.lastCall = [op |-> "processAST", block |-> "D", address |-> A.root]]
    /\ UNCHANGED <<treeVars, resolverVars, reading, suspended>>

\* AsciidoctorTree.clear()
ClearCall ==
    /\ adoc.nodes # EmptyMap
    /\ adoc' = [adoc EXCEPT !.nodes = EmptyMap,
                            !.lastCall = [op |-> "clear", block |-> "none", address |-> NoKey]]
    /\ UNCHANGED <<treeVars, resolverVars, reading, suspended>>

\* the caller replaces its AsciidoctorTree by a new one
NewAsciidoctorTreeCall ==
    /\ adoc.parsed
    /\ adoc' = [NewAsciidoctorTree EXCEPT !.passes = adoc.passes]
    /\ UNCHANGED <<treeVars, resolverVars, reading, suspended>>

\* generateAddress(block), called on a block of the document parsed last
GenerateAddressCall(block) ==
    /\ adoc.parsed
    /\ adoc.calls < MaxGenerateCalls
    /\ CountersInRange
    /\ LET g == generateAddress([adoc EXCEPT !.err = "none", !.log = <<>>], block)
       IN  adoc' = [g.adoc EXCEPT
                      !.calls = @ + 1,
                      !.lastCall = [op |-> "generateAddress", block |-> block,
                                    address |-> g.address]]
    /\ UNCHANGED <<treeVars, resolverVars, reading, suspended>>

\* addNode(block, parentNode), called on a block of the document parsed last
\* and a node of the Map
AddTreeNodeCall(block, parentNode) ==
    /\ adoc.parsed
    /\ adoc.calls < MaxGenerateCalls
    /\ CountersInRange
    /\ parentNode \in DOMAIN adoc.nodes
    /\ \E A \in {addTreeNode([adoc EXCEPT !.err = "none", !.log = <<>>], block, parentNode)} :
           adoc' = [A EXCEPT
                      !.calls = @ + 1,
                      !.lastCall = [op |-> "addNode", block |-> block,
                                    address |-> A.log[Len(A.log)].address]]
    /\ UNCHANGED <<treeVars, resolverVars, reading, suspended>>

\* the generator of [Symbol.iterator], run to its end: the nodes it yields
RECURSIVE Iterate(_, _, _)
Iterate(objects, nodeStack, yielded) ==
    IF nodeStack = <<>> THEN yielded
    ELSE LET node     == Top(nodeStack)
             children == objects[node].children
         IN  IF Len(children) = 0
             THEN Iterate(objects, Pop(nodeStack), Append(yielded, node))
             ELSE Iterate(objects,
                          Pop(nodeStack) \o [i \in 1..Len(children) |->
                                                 children[Len(children) + 1 - i]],
                          yielded)

\* A slip in the iterator: the children are pushed first to last.
IterateCallPushingInOrder ==
    /\ adoc.inUse
    /\ LET RECURSIVE Walk(_, _)
           Walk(nodeStack, yielded) ==
               IF nodeStack = <<>> THEN yielded
               ELSE IF Len(adoc.objects[Top(nodeStack)].children) = 0
               THEN Walk(Pop(nodeStack), Append(yielded, Top(nodeStack)))
               ELSE Walk(Pop(nodeStack) \o adoc.objects[Top(nodeStack)].children, yielded)
       IN  adoc' = [adoc EXCEPT
                      !.err = IF adoc.root = NoKey THEN "TypeError" ELSE "none",
                      !.yielded = IF adoc.root = NoKey THEN <<>> ELSE Walk(<<adoc.root>>, <<>>),
                      !.lastCall = [op |-> "iterate", block |-> "none", address |-> NoKey]]
    /\ UNCHANGED <<treeVars, resolverVars, reading, suspended>>

\* for (const node of tree): the iterator is run to its end; without a root
\* the first `node.children` throws
IterateCall ==
    /\ adoc.inUse
    /\ adoc' = [adoc EXCEPT
                   !.err = IF adoc.root = NoKey THEN "TypeError" ELSE "none",
                   !.yielded = IF adoc.root = NoKey THEN <<>>
                               ELSE Iterate(adoc.objects, <<adoc.root>>, <<>>),
                   !.lastCall = [op |-> "iterate", block |-> "none", address |-> NoKey]]
    /\ UNCHANGED <<treeVars, resolverVars, reading, suspended>>

NextDoc ==
    \/ \E src \in Sources : ProcessASTCall(src)
    \/ ClearCall
    \/ NewAsciidoctorTreeCall
    \/ \E block \in Blocks : GenerateAddressCall(block)

SpecDoc == InitDoc /\ [][NextDoc]_vars

\* The passes of a decomposer and the iterations over what they built: the
\* callers that decompose, clear, replace the decomposer and iterate, and
\* leave generateAddress to the passes.
NextPasses ==
    \/ \E src \in Sources : ProcessASTCall(src)
    \/ IterateCall
    \/ ClearCall
    \/ NewAsciidoctorTreeCall

SpecPasses == InitDoc /\ [][NextPasses]_vars

\* The passes of a decomposer and the callers that add nodes of their own: a
\* section, a paragraph the pass has visited, or the paragraph inside the
\* example, which no pass visits, under the root or under a section's node.
AddedBlocks == {"S1", "P0", "P2"}

ParentNodes ==
    {a \in DOMAIN adoc.nodes : Context(adoc.nodes[a].block) \in {"document", "section"}}

NextAdd ==
    \/ \E src \in Sources : ProcessASTCall(src)
    \/ ClearCall
    \/ \E block \in AddedBlocks, parentNode \in ParentNodes :
          AddTreeNodeCall(block, parentNode)

SpecAdd == InitDoc /\ [][NextAdd]_vars

----------------------------------------------------------------------------
(* Properties of the tree's public interface (SpecTree). *)

NodeIds(T) == 1..Len(T.nodes)

\* the node objects a children list holds, as a set
Range(seq) == {seq[i] : i \in 1..Len(seq)}

\* the node objects an index holds
MapRange(m) == {m[k] : k \in DOMAIN m}

\* seq without its occurrences of the node object n
Without(seq, n) == LET other(c) == c # n IN SelectSeq(seq, other)

\* number of positions of seq that hold n
Occurrences(seq, n) == Cardinality({i \in 1..Len(seq) : seq[i] = n})

\* C1: addNode with a parent key found in neither the id index nor the address
\* index fails with ParentNotFound, and the call leaves the whole tree (indices,
\* children lists, parent links) as it was.
C1_MissingParentRejected ==
    [][ ( /\ last'.op = "addNode"
          /\ MapGet(tree.nodesById, last'.parent) = Null
          /\ MapGet(tree.nodesByAddress, last'.parent) = Null )
        => ( last'.error = "ParentNotFound" /\ tree' = tree ) ]_vars

\* a call with an unresolvable parent key has failed on a tree that holds more
\* than its root
C1_Witness ==
    /\ last.op = "addNode"
    /\ last.error = "ParentNotFound"
    /\ MapGet(tree.nodesById, last.parent) = Null
    /\ MapGet(tree.nodesByAddress, last.parent) = Null
    /\ Len(tree.nodes) >= 2

\* C2: after a successful addNode(n, p), getParent(n) is the node p resolved to,
\* and getChildren(p) is its former value with n appended.
C2_ChildAppendedUnderParent ==
    [][ ( last'.op = "addNode" /\ last'.error = "none" /\ tree' # tree )
        => ( /\ getParent(tree', Id(last'.event)) = getNode(tree, last'.parent)
             /\ getChildren(tree', last'.parent)
                    = Append(getChildren(tree, last'.parent),
                             getNode(tree', Id(last'.event))) ) ]_vars

\* C3: for every key that resolves to a node with a parent, getSiblings(key) is
\* the parent's children list without that node and with every other node kept;
\* for an unresolved key and for the root it is empty.
C3_SiblingsAreOtherChildren ==
    \A key \in Keys :
        LET n == getNode(tree, key) IN
        IF n = Null \/ n = tree.root
        THEN getSiblings(tree, key) = <<>>
        ELSE getSiblings(tree, key)
                 = Without(tree.nodes[tree.nodes[n].parent].children, n)

\* C4: every unit in the tree that has an address is found under its id and
\* under its address, and both lookups give the same node.
C4_IdAndAddressAgree ==
    \A n \in NodeIds(tree) :
        LET u == tree.nodes[n].event IN
        getEventAddress(u) # NoKey
            => /\ getNode(tree, Id(u)) # Null
               /\ getNode(tree, Id(u)) = getNode(tree, getEventAddress(u))

\* following parent links from n for at most `fuel` steps ends at the root
RECURSIVE ReachesRoot(_, _, _)
ReachesRoot(T, n, fuel) ==
    IF n = T.root THEN TRUE
    ELSE IF fuel = 0 \/ n = Null THEN FALSE
    ELSE ReachesRoot(T, T.nodes[n].parent, fuel - 1)

\* C5: the tree is acyclic and connected: every node other than the root has a
\* parent, occurs exactly once in its parent's children list and in no other
\* list, and reaches the root along parent links; the root is in no list.
C5_AcyclicConnected ==
    /\ \A n \in NodeIds(tree) \ {tree.root} :
          /\ tree.nodes[n].parent \in NodeIds(tree)
          /\ \A p \in NodeIds(tree) :
                Occurrences(tree.nodes[p].children, n)
                    = IF p = tree.nodes[n].parent THEN 1 ELSE 0
          /\ ReachesRoot(tree, n, Len(tree.nodes))
    /\ tree.nodes[tree.root].parent = Null
    /\ \A p \in NodeIds(tree) : Occurrences(tree.nodes[p].children, tree.root) = 0
    /\ MapRange(tree.nodesById) \cup MapRange(tree.nodesByAddress) \subseteq NodeIds(tree)

\* a node has been added under a node that is not the root
C5_Witness ==
    \E n \in NodeIds(tree) :
        /\ tree.nodes[n].parent \notin {Null, tree.root}
        /\ Len(tree.nodes[tree.root].children) >= 1

\* C6: the root is the node the constructor created, the root's id resolves to
\* it, and it has no parent, whatever was added since.
C6_RootFixed ==
    /\ tree.root = 1
    /\ getNode(tree, Id(tree.nodes[1].event)) = 1
    /\ getParent(tree, Id(tree.nodes[1].event)) = Null

----------------------------------------------------------------------------
(* Properties of depthFirstFindEvent (Spec). *)

\* the keys under which the tree holds a node
IndexedKeys(T) == (DOMAIN T.nodesById) \cup (DOMAIN T.nodesByAddress)

\* the node a key of the tree leads to, read from the two indices
IndexedNode(T, key) ==
    IF key \in DOMAIN T.nodesById THEN T.nodesById[key] ELSE T.nodesByAddress[key]

IsPrefix(s, t) == Len(s) <= Len(t) /\ SubSeq(t, 1, Len(s)) = s

\* C7: a resolution whose target is in the tree when it starts (under an id or
\* under an address) returns that node's event at once: no fetch is dispatched
\* and the tree is left as it was.
C7_PresentTargetNoFetch ==
    [][ ( calls' = calls + 1 /\ target' \in IndexedKeys(tree) )
        => ( /\ pc' = "done"
             /\ result' = tree.nodes[IndexedNode(tree, target')].event
             /\ fetchCount' = 0
             /\ tree' = tree ) ]_vars

\* a second resolution has found its target under an address in a tree that an
\* earlier resolution has grown, without popping a node or fetching
C7_Witness ==
    /\ pc = "done"
    /\ calls = 2
    /\ target \in DOMAIN tree.nodesByAddress
    /\ result = tree.nodes[tree.nodesByAddress[target]].event
    /\ result # "r"
    /\ visited = <<>>
    /\ fetchCount = 0

\* C8: within one resolution no node object is popped from the stack twice.
C8_VisitedAtMostOnce ==
    \A i \in 1..Len(visited), j \in 1..Len(visited) :
        i # j => visited[i] # visited[j]

\* C9, in the form a finite run refutes: a resolution that terminates whatever
\* the relays answer never comes back to a loop head it has been at before (the
\* same events on the stack, the same nodes behind every key); from such a loop
\* head the relays can answer as they did before, and the loop repeats for ever.
C9_NoLoopHeadTwice ==
    (pc = "loop" /\ stack # <<>>) => LoopHead \notin heads

\* C10: a step of a resolution only grows the tree: every key that led to a node
\* leads to the same node afterwards, and every children list is extended at its
\* end only.
C10_TreeOnlyGrows ==
    [][ /\ \A key \in IndexedKeys(tree) : getNode(tree', key) = getNode(tree, key)
        /\ \A n \in NodeIds(tree) :
              /\ n \in NodeIds(tree')
              /\ IsPrefix(tree.nodes[n].children, tree'.nodes[n].children) ]_vars

----------------------------------------------------------------------------
(* Properties of depthFirstFindEvent over failing relays and unsupported
   addresses (SpecFaults). *)

\* C11: a fetch that fails within a round counts as an absent result for its
\* reference only: the round that holds it is not aborted and the resolution
\* does not end with the fetch's failure.
C11_FailedFetchIsAbsentOnly ==
    /\ (\E i \in 1..Len(fetched) : fetched[i] = Rejected) => pc \in {"await", "insert"}
    /\ ~(pc = "failed" /\ result = "FetchFailed")

\* C12, as stated: popping a node whose tags hold a reference of more than three
\* segments ends the resolution with InvalidAddress, the tree untouched.
C12_UnsupportedReferenceIsFatal ==
    [][ ( /\ pc = "loop" /\ stack # <<>>
          /\ \E i \in 1..Len(childAddresses(Top(stack))) :
                Unsupported(childAddresses(Top(stack))[i]) )
        => ( pc' = "failed" /\ result' = "InvalidAddress" /\ tree' = tree ) ]_vars

\* C12, amended: popping a node whose tags hold a reference of more than three
\* segments that does not resolve in the tree ends the resolution with
\* InvalidAddress: the tree is untouched (no node of the round is inserted), and
\* nothing more is popped, fetched or inserted before the caller's next call.
C12_UnresolvedUnsupportedReferenceIsFatal ==
    [][ /\ ( /\ pc = "loop" /\ stack # <<>>
             /\ \E i \in 1..Len(unfetchedChildAddresses(Top(stack))) :
                   Unsupported(unfetchedChildAddresses(Top(stack))[i]) )
           => ( pc' = "failed" /\ result' = "InvalidAddress" /\ tree' = tree )
        /\ ( pc = "failed" /\ calls' = calls ) => UNCHANGED vars ]_vars

\* a resolution has ended with InvalidAddress in a round that also held a
\* supported reference, with a node left on the stack
C12_Witness ==
    /\ pc = "failed"
    /\ result = "InvalidAddress"
    /\ stack # <<>>
    /\ fetchCount >= 2
    /\ \E i \in 1..Len(childAddresses(current)) : ~Unsupported(childAddresses(current)[i])

----------------------------------------------------------------------------
(* The early return of depthFirstFindEvent (Spec). *)

\* C20: when the target resolves after a round's insertions the resolution
\* returns its event at once: nothing is pushed or popped, nothing is fetched,
\* the tree stays as the round left it, and it stays so until the next call.
C20_ReturnsOnceTargetResolves ==
    [][ /\ ( pc = "insert" /\ fetched = <<>> /\ getNode(tree, target) # Null )
           => ( /\ pc' = "done"
                /\ result' = tree.nodes[getNode(tree, target)].event
                /\ UNCHANGED <<tree, stack, visited, fetchCount>> )
        /\ ( pc = "done" /\ calls' = calls )
           => UNCHANGED <<tree, stack, visited, fetchCount, result>> ]_vars

\* a resolution has returned the target it fetched while a node was still on
\* the stack
C20_Witness ==
    /\ pc = "done"
    /\ result # NoUnit
    /\ getNode(tree, target) # Null
    /\ fetchCount >= 1
    /\ stack # <<>>

----------------------------------------------------------------------------
(* Properties of AsciidoctorTree (SpecDoc). *)

\* C13: two passes over the same document give every block the same address.
C13_SameDocumentSameAddresses ==
    \A i \in 1..Len(adoc.passes), j \in 1..Len(adoc.passes) :
        adoc.passes[i].source = adoc.passes[j].source
            => adoc.passes[i].assigned = adoc.passes[j].assigned

IsSuffix(end, str) ==
    Len(end) <= Len(str) /\ SubSeq(str, Len(str) - Len(end) + 1, Len(str)) = end

\* C14: on a tree that has its root, every generateAddress(block) gives the
\* normalized id of the block if that is not empty; else its normalized title
\* if that is not empty; else a fallback that ends with the document's tag, the
\* block's context and that context's counter.  The third case adds one to
\* that counter; no other counter moves, and none moves in the first two cases.
C14_AddressPrecedence ==
    \A n \in 1..Len(adoc.log) :
        LET call    == adoc.log[n]
            byId    == normalizeId(call.id)
            byTitle == normalizeId(call.title)
            context == Context(call.block)
            counter == IF context \in DOMAIN call.before THEN call.before[context] ELSE 0
            tag     == IF Cardinality({i \in 1..Len(call.root) : call.root[i] = ":"}) >= 2
                       THEN documentDTag(call.root)
                       ELSE call.root
        IN  call.root # NoKey =>
              IF byId # <<>>
              THEN call.address = byId /\ call.after = call.before
              ELSE IF byTitle # <<>>
              THEN call.address = byTitle /\ call.after = call.before
              ELSE /\ IsSuffix(tag \o <<"-", context, "-", Digits[counter + 1]>>,
                               call.address)
                   /\ call.after = MapSet(call.before, context, counter + 1)

----------------------------------------------------------------------------
(* Properties of getSectionContent and of Librarian.retrieveSection *)

\* C17: a call of getSectionContent whose root key does not resolve in the tree
\* fails with NodeNotFound, has produced no text, and leaves the tree as it was.
C17_UnresolvedRootIsNodeNotFound ==
    [][ \A root \in SectionKeys :
          (GetSectionContentCall(root) /\ getNode(tree, root) = Null)
              => /\ reading'.status = "NodeNotFound"
                 /\ reading'.text = <<>>
                 /\ tree' = tree ]_vars

\* a real unit's id is asked for in a grown tree that does not hold the unit
C17_Witness ==
    /\ reading.op = "getSectionContent"
    /\ reading.key = Id("x")
    /\ reading.status = "NodeNotFound"
    /\ Len(tree.nodes) >= 2
    /\ getNode(tree, Id("x")) = Null

\* C18: retrieveSection fails with TargetNotFound exactly when the resolver
\* returned null; then nothing was reconstructed or handed to the renderer, and
\* the tree keeps every node the resolution added.
C18_TargetNotFoundIffAbsent ==
    [][ RetrieveSectionReturn
          => /\ (reading'.status = "TargetNotFound") <=> (result = NoUnit)
             /\ result = NoUnit => (reading'.text = <<>> /\ ~reading'.rendered)
             /\ tree' = tree ]_vars

\* a retrieval failed with TargetNotFound after its resolution had added nodes
C18_Witness ==
    /\ reading.op = "retrieveSection"
    /\ reading.call = calls
    /\ reading.status = "TargetNotFound"
    /\ pc = "done"
    /\ result = NoUnit
    /\ Len(tree.nodes) >= 3

\* The reconstruction of a node as the node objects of the tree define it: the
\* heading of the node at its depth, then its content if it is a leaf, else
\* the reconstructions of the nodes of its children list, in order.
RECURSIVE Reconstruction(_, _)
RECURSIVE ReconstructionOfAll(_, _)
Reconstruction(T, n) ==
    Heading(getNodeDepth(T, n), Title(T.nodes[n].event))
        \o (IF Kind(T.nodes[n].event) \in zettelKinds
            THEN <<Content(T.nodes[n].event)>>
            ELSE ReconstructionOfAll(T, T.nodes[n].children))

ReconstructionOfAll(T, children) ==
    IF children = <<>> THEN <<>>
    ELSE Reconstruction(T, Head(children)) \o ReconstructionOfAll(T, Tail(children))

\* a text without its heading markers: the titles and contents in order
Body(text) == SelectSeq(text, LAMBDA piece : piece # "=")

\* C15: in every text getSectionContent returns, each heading has one marker
\* more than the depth, counted from the root of the whole tree, of the node
\* the heading was written for.
C15_MarkersAreDepthPlusOne ==
    \A root \in SectionKeys :
        LET sectionContent == getSectionContent(tree, root)
        IN  sectionContent.error = "none"
                => \A i \in 1..Len(sectionContent.emitted) :
                       sectionContent.emitted[i].markers
                           = 1 + getNodeDepth(tree, sectionContent.emitted[i].asked)

\* C16: apart from the heading markers, every text getSectionContent returns
\* is the title of the node and then, for a leaf, its content and nothing
\* else, or, for an index, what its children give, each listed child once and
\* in the order of the children list.
C16_LeafIsContentIndexIsChildren ==
    \A root \in SectionKeys :
        LET sectionContent == getSectionContent(tree, root)
        IN  sectionContent.error = "none"
                => Body(sectionContent.text)
                       = Body(Reconstruction(tree, getNode(tree, root)))

\* C19: when the resolver returned a target that has a parent and the
\* reconstruction succeeded, the text handed to the renderer is the
\* reconstruction of the parent node of the target in the tree as it is after
\* the resolution.
C19_RendersReconstructionOfParent ==
    [][ ( /\ RetrieveSectionReturn
          /\ result # NoUnit
          /\ getParent(tree, Id(result)) # Null
          /\ reading'.status = "none" )
          => /\ reading'.rendered
             /\ reading'.text = Reconstruction(tree, getParent(tree, Id(result))) ]_vars

----------------------------------------------------------------------------
(* Properties of the order in which the resolver visits and inserts *)

\* the node object n has been popped by the running resolution
Popped(n) == \E i \in 1..Len(visited) : visited[i] = n

\* the position in `visited` of the first pop of n
FirstPop(n) == CHOOSE i \in 1..Len(visited) : visited[i] = n /\ \A j \in 1..(i - 1) : visited[j] # n

\* d is the node a or lies below it
RECURSIVE IsUnder(_, _, _, _)
IsUnder(T, d, a, fuel) ==
    \/ d = a
    \/ /\ fuel > 0
       /\ T.nodes[d].parent # Null
       /\ IsUnder(T, T.nodes[d].parent, a, fuel - 1)

\* C21: for two nodes a before b of one children list, once b has been popped,
\* a has been popped before it, and so has every popped node below a.
C21_LeftToRightVisiting ==
    \A p \in NodeIds(tree) :
        \A k, l \in 1..Len(tree.nodes[p].children) :
            LET a == tree.nodes[p].children[k]
                b == tree.nodes[p].children[l]
            IN  (k < l /\ Popped(b))
                    => /\ Popped(a)
                       /\ \A d \in NodeIds(tree) :
                              (Popped(d) /\ IsUnder(tree, d, a, Len(tree.nodes)))
                                  => FirstPop(d) < FirstPop(b)

\* C22: the fetches of a round are dispatched for the popped node's missing
\* references in their declared order and may settle in any order; each step of
\* the insertion takes the result of the next reference in that order and, if
\* an event was fetched, appends a new node holding it to the children of the
\* popped node.
C22_InsertedInReferenceOrder ==
    [][ /\ (PopNode /\ pc' = "await")
            => round' = unfetchedChildAddresses(current')
        /\ (InsertFetched /\ Head(fetched) # NoUnit /\ pc' = "insert")
            => /\ Head(fetched) \in Matches(Head(round))
               /\ Len(tree'.nodes) = Len(tree.nodes) + 1
               /\ tree'.nodes[Len(tree'.nodes)].event = Head(fetched)
               /\ tree'.nodes[current].children
                      = Append(tree.nodes[current].children, Len(tree'.nodes)) ]_vars

\* C29: while the first resolution on a tree runs and after it, no two nodes
\* of the children lists hold the same event, be it in one list or in two.
C29_EachUnitInsertedOnce ==
    calls <= 1 =>
        \A p, q \in NodeIds(tree) :
            \A k \in 1..Len(tree.nodes[p].children), l \in 1..Len(tree.nodes[q].children) :
                tree.nodes[tree.nodes[p].children[k]].event
                    = tree.nodes[tree.nodes[q].children[l]].event
                    => (p = q /\ k = l)

----------------------------------------------------------------------------
(* Retrieval of the root *)

\* C28: when the resolver returned a target whose node has no parent, the
\* retrieval fails: no text is handed to the renderer, and the tree is as the
\* resolution left it.
C28_RootTargetFails ==
    [][ ( /\ RetrieveSectionReturn
          /\ result # NoUnit
          /\ getParent(tree, Id(result)) = Null )
          => /\ reading'.status \notin {"none", "TargetNotFound"}
             /\ ~reading'.rendered
             /\ reading'.text = <<>>
             /\ tree' = tree ]_vars

\* the root was retrieved from a tree that an earlier retrieval had grown
C28_Witness ==
    /\ reading.op = "retrieveSection"
    /\ reading.call = calls
    /\ reading.key = Id("r")
    /\ reading.status = "TypeError"
    /\ result = "r"
    /\ getParent(tree, Id("r")) = Null
    /\ Len(tree.nodes) >= 2

----------------------------------------------------------------------------
(* Two resolutions on one tree *)

\* the call during whose turn the node object n was inserted
Owner(n) ==
    LET later == {k \in 1..Len(suspended.log) : suspended.log[k].upto >= n}
    IN  IF later = {} THEN Running
        ELSE suspended.log[CHOOSE k \in later : \A j \in later : k <= j].by

\* C23: among the nodes inserted since a second call was started while the
\* first one waited, the insertions of one call never lie on both sides of an
\* insertion of the other.
C23_InsertionsDoNotInterleave ==
    suspended.call # 0 =>
        \A i, j, k \in NodeIds(tree) :
            (suspended.log[1].upto < i /\ i < j /\ j < k)
                => ~(Owner(i) = Owner(k) /\ Owner(j) # Owner(i))

----------------------------------------------------------------------------
(* Properties of the passes of the decomposer and of its iterator *)

\* C26: every pass starts with every context's counter at its initial value:
\* when the pass makes its first generateAddress call, no counter has a value.
C26_CountersStartAtInitialValue ==
    (adoc.lastCall.op = "processAST" /\ adoc.log # <<>>)
        => adoc.log[1].before = EmptyMap

\* C30: within a pass, every generateAddress call on a block returns the
\* address the first call on that block returned, and when the pass has ended
\* without an error the block's node is stored under that address.
C30_AddressStableWithinPass ==
    adoc.lastCall.op = "processAST" =>
        \A i, j \in 1..Len(adoc.log) :
            (i < j /\ adoc.log[i].block = adoc.log[j].block /\ adoc.log[j].err = "none")
                => /\ adoc.log[j].address = adoc.log[i].address
                   /\ adoc.err = "none"
                          => /\ adoc.log[i].address \in DOMAIN adoc.nodes
                             /\ adoc.nodes[adoc.log[i].address].block = adoc.log[i].block

\* the calls of the log that took the fallback branch: they moved a counter
FallbackCalls == {i \in 1..Len(adoc.log) : adoc.log[i].after # adoc.log[i].before}

\* the value of the counter of context c in the counters m
CounterValue(m, c) == IF c \in DOMAIN m THEN m[c] ELSE 0

\* C25: in a pass, the k-th block (k = 0, 1, ...) that gets a fallback address
\* in a context gets the counter value k; no block gets a fallback address
\* twice; and a fallback moves the counter of its own context by one and
\* leaves the counters of the other contexts as they were.
C25_CountersPerContext ==
    adoc.lastCall.op = "processAST" =>
        \A i \in FallbackCalls :
            LET c == Context(adoc.log[i].block) IN
            /\ CounterValue(adoc.log[i].before, c)
                   = Cardinality({j \in FallbackCalls :
                                     j < i /\ Context(adoc.log[j].block) = c})
            /\ \A j \in FallbackCalls : adoc.log[j].block = adoc.log[i].block => j = i
            /\ CounterValue(adoc.log[i].after, c) = CounterValue(adoc.log[i].before, c) + 1
            /\ \A d \in (DOMAIN adoc.log[i].after \cup DOMAIN adoc.log[i].before) \ {c} :
                   CounterValue(adoc.log[i].after, d) = CounterValue(adoc.log[i].before, d)

\* the place of the block b in the order of the visits of the last pass
VisitOf(b) == CHOOSE k \in 1..Len(adoc.visits) : adoc.visits[k] = b

\* the place of the block b among the blocks of its parent
PlaceOf(b) ==
    CHOOSE k \in 1..Len(getBlocks(ParentBlock(b))) : getBlocks(ParentBlock(b))[k] = b

\* C24: a pass visits the blocks breadth-first. No block is visited twice;
\* only blocks of the document and of sections are visited, each after its
\* section; no block of the document comes after a block of a section; blocks
\* of one parent come in the parent's order and blocks of two sections in the
\* order of the visits of their sections; and the fallback counters are
\* consumed, after the document's, in the order of the visits.
C24_BreadthFirstVisiting ==
    adoc.lastCall.op = "processAST" =>
        /\ \A i, j \in 1..Len(adoc.visits) :
               LET a  == adoc.visits[i]
                   b  == adoc.visits[j]
                   pa == ParentBlock(a)
                   pb == ParentBlock(b)
               IN  /\ a = b => i = j
                   /\ pa = "D" \/ (Context(pa) = "section" /\ pa \in Range(adoc.visits)
                                     /\ VisitOf(pa) < i)
                   /\ i < j =>
                         /\ ~(pa # "D" /\ pb = "D")
                         /\ pa = pb => PlaceOf(a) < PlaceOf(b)
                         /\ (pa # "D" /\ pb # "D" /\ pa # pb
                                /\ pa \in Range(adoc.visits) /\ pb \in Range(adoc.visits))
                               => VisitOf(pa) < VisitOf(pb)
        /\ adoc.err = "none" =>
               \A b \in Blocks \ {"D"} :
                   (ParentBlock(b) = "D" \/ Context(ParentBlock(b)) = "section")
                       => b \in Range(adoc.visits)
        /\ \A i, j \in FallbackCalls :
               LET a == adoc.log[i].block
                   b == adoc.log[j].block
               IN  /\ a = "D" \/ a \in Range(adoc.visits)
                   /\ (i < j /\ a # "D") => (b # "D" /\ VisitOf(a) < VisitOf(b))

\* a pass over a document with two sections, a block that holds a block, and
\* blocks behind the first section has ended; every visited block took a
\* fallback address
C24_Witness ==
    /\ adoc.lastCall.op = "processAST"
    /\ adoc.err = "none"
    /\ adoc.visits = <<"S1", "P0", "E1", "S2", "P1", "I1", "P3">>
    /\ {adoc.log[i].block : i \in FallbackCalls} = Range(adoc.visits)

\* the node at address n and every node below it
RECURSIVE NodesUnder(_)
NodesUnder(n) ==
    {n} \cup UNION { NodesUnder(adoc.objects[n].children[k]) :
                        k \in 1..Len(adoc.objects[n].children) }

\* the place of the node n in what the last iteration yielded
YieldOf(n) == CHOOSE k \in 1..Len(adoc.yielded) : adoc.yielded[k] = n

\* C27: an iteration that ran to its end has yielded the nodes under the root
\* that have no children, each once and no other node, and for two children of
\* one node every node yielded from under the earlier child comes before
\* every node yielded from under the later one.
C27_IteratorYieldsLeavesInOrder ==
    (adoc.lastCall.op = "iterate" /\ adoc.err = "none") =>
        /\ Range(adoc.yielded)
               = {n \in NodesUnder(adoc.root) : adoc.objects[n].children = <<>>}
        /\ \A i, j \in 1..Len(adoc.yielded) : adoc.yielded[i] = adoc.yielded[j] => i = j
        /\ \A p \in NodesUnder(adoc.root) :
               \A k, l \in 1..Len(adoc.objects[p].children) :
                   k < l =>
                       \A u \in NodesUnder(adoc.objects[p].children[k]) \cap Range(adoc.yielded),
                          v \in NodesUnder(adoc.objects[p].children[l]) \cap Range(adoc.yielded) :
                           YieldOf(u) < YieldOf(v)

\* a tree of two levels was iterated: a child of the root that has children
\* stands before childless children of the root
C27_Witness ==
    /\ adoc.lastCall.op = "iterate"
    /\ adoc.err = "none"
    /\ Len(adoc.objects[adoc.root].children) = 4
    /\ Len(adoc.objects[adoc.objects[adoc.root].children[1]].children) = 2
    /\ Len(adoc.yielded) = 5

\* the places at which the node at address a stands in the children lists of
\* the nodes of the Map A.nodes
PlacesOf(A, a) ==
    UNION { { <<p, k>> : k \in {i \in 1..Len(A.nodes[p].children) :
                                      A.nodes[p].children[i] = a} } :
            p \in DOMAIN A.nodes }

\* C31: an addNode whose generated address is in the Map already leaves the
\* Map, its nodes and their children lists as they were; and when a pass has
\* ended without an error, every node of the Map but the root stands at
\* exactly one place of exactly one children list, and the root at none.
C31_DuplicateAddressChangesNothing ==
    [][ /\ ( /\ \E block \in AddedBlocks, parentNode \in ParentNodes :
                    AddTreeNodeCall(block, parentNode)
             /\ adoc'.err = "none"
             /\ adoc'.lastCall.address \in DOMAIN adoc.nodes )
            => (adoc'.nodes = adoc.nodes /\ adoc'.objects = adoc.objects)
        /\ ( /\ \E src \in Sources : ProcessASTCall(src)
             /\ adoc'.err = "none" )
            => \A a \in DOMAIN adoc'.nodes :
                   Cardinality(PlacesOf(adoc', a)) = IF a = adoc'.root THEN 0 ELSE 1 ]_vars

\* C32: when a pass has ended, the block list of the document and the block
\* list of every section hold the blocks they held when the document was
\* parsed, in the same order.
C32_DocumentBlocksUnchanged ==
    adoc.lastCall.op = "processAST" =>
        \A b \in Blocks : adoc.blocks[b] = getBlocks(b)

====
